---- MODULE Spec2Model ----
(***************************************************************************)
(* Model of packages/verify-local/src/face/face_match.py: one run of       *)
(* main() (file check, preprocessing, optional liveness check, model       *)
(* loading, embedding extraction, comparison, result on stdout) and the    *)
(* pure functions it calls.                                                *)
(*                                                                         *)
(* Numbers are fixed point.  Embedding components are in hundredths,       *)
(* similarity and --min-sim in units of 1e-5, the Laplacian variance in    *)
(* hundredths, noise_std and banding_score in thousandths.  Python         *)
(* round() and the format specs :.1f/:.2f round half to even, as does      *)
(* np.round.  Pixel values of the camera images are not part of the state  *)
(* of main(): an image there is its shape.  The three liveness metrics are *)
(* functions of the pixels (Laplacian, blur residual, FFT) and enter the   *)
(* model as inputs of the verdict.                                         *)
(***************************************************************************)
EXTENDS Integers, Sequences, FiniteSets, TLC

VARIABLES pc, args, selfie_img, doc_img, liveness_result, app,
          selfie_emb, doc_emb, stdout, exit_code, uncaught, trace, failure,
          probe, probe_out

vars == <<pc, args, selfie_img, doc_img, liveness_result, app,
          selfie_emb, doc_emb, stdout, exit_code, uncaught, trace, failure,
          probe, probe_out>>

mainVars == <<pc, args, selfie_img, doc_img, liveness_result, app,
              selfie_emb, doc_emb, stdout, exit_code, uncaught, trace, failure>>

\* Python's None, and an optional value x, as sequences of length 0 and 1.
None == <<>>
Some(x) == <<x>>

----------------------------------------------------------------------------
\* Bounds of the model.

\* Embedding components of a run of main() are taken among -MaxComp, 0,
\* MaxComp - 2 and MaxComp hundredths, embeddings have two components (512
\* in buffalo_sc).
MaxComp == 6
\* app.get returns at most MaxFaces faces, each of bounding-box area 1..MaxArea.
MaxFaces == 2
MaxArea == 2
\* Widths of decoded images lie within WDelta of the resize limit or are a
\* multiple of it up to WMult times; heights are 1..MaxH.
WDelta == 4
WMult == 3
MaxH == 5
\* The liveness metrics lie within MetricDelta steps around their thresholds.
MetricDelta == 3
\* Side of the pixel grids given to fix_exif_rotation, pixel values 0..MaxPix.
MaxSide == 2
MaxPix == 1
\* Components of the embeddings given to quantize_embedding alone:
\* -QMaxComp..QMaxComp hundredths, in vectors of length 1..QMaxLen.
QMaxComp == 6
QMaxLen == 2

----------------------------------------------------------------------------
\* Rounding

Abs(x) == IF x < 0 THEN -x ELSE x

\* x/d rounded to the nearest integer, ties to the even one (d > 0).
RoundHalfEven(x, d) ==
    LET q == x \div d
        r == x % d
    IN  IF 2 * r < d THEN q
        ELSE IF 2 * r > d THEN q + 1
        ELSE IF q % 2 = 0 THEN q ELSE q + 1

RECURSIVE ISqrtIn(_, _, _)
ISqrtIn(x, lo, hi) ==
    IF lo = hi THEN lo
    ELSE LET mid == (lo + hi + 1) \div 2
         IN  IF mid * mid <= x THEN ISqrtIn(x, mid, hi) ELSE ISqrtIn(x, lo, mid - 1)

\* floor(sqrt(x)) for 0 <= x < 2^31
ISqrt(x) == ISqrtIn(x, 0, 46340)

RECURSIVE Pow10(_)
Pow10(p) == IF p = 0 THEN 1 ELSE 10 * Pow10(p - 1)

RECURSIVE SumSeq(_)
SumSeq(s) == IF s = <<>> THEN 0 ELSE Head(s) + SumSeq(Tail(s))

Dot(a, b) == SumSeq([i \in 1..Len(a) |-> a[i] * b[i]])

----------------------------------------------------------------------------
\* cosine_similarity and quantize_embedding

\* Units of 1e-5 in one: the resolution similarity is kept at.
SimScale == 100000
\* Embedding components are hundredths.
EmbScale == 100

\* a / (norm(a) + 1e-8) . b / (norm(b) + 1e-8): the epsilon only keeps the
\* division defined (an all-zero vector gives 0); on other vectors it is
\* below the resolution of the model.
cosine_similarity(a, b) ==
    LET aa == Dot(a, a)
        bb == Dot(b, b)
        d  == Dot(a, b)
        n  == ISqrt(aa * bb * 10000)    \* 100 * norm(a) * norm(b)
    IN  IF aa = 0 \/ bb = 0 THEN 0
        ELSE IF d >= 0 THEN (d * 100 * SimScale) \div n
        ELSE -((-d * 100 * SimScale) \div n)

\* quantize_embedding with the scaled components truncated downwards
\* instead of rounded
quantize_embedding_floor(embedding, precision) ==
    LET factor == Pow10(precision)
    IN  [i \in 1..Len(embedding) |->
            (((embedding[i] * factor) \div EmbScale) * EmbScale) \div factor]

\* factor = 10 ** precision; np.round(embedding * factor) / factor
\* (precision 0..2, the result again in hundredths)
quantize_embedding(embedding, precision) ==
    LET factor == Pow10(precision)
    IN  [i \in 1..Len(embedding) |->
            (RoundHalfEven(embedding[i] * factor, EmbScale) * EmbScale) \div factor]

----------------------------------------------------------------------------
\* check_liveness (lines 224-279)

\* A Python truth value with the class that carries it: comparing a
\* numpy.float64 gives a numpy.bool_, comparing a float gives a bool.
PyBool(v) == [type |-> "bool", v |-> v]
NpBool(v) == [type |-> "numpy.bool_", v |-> v]
\* x and y: x when x is falsy, else y
PyAnd(x, y) == IF x.v THEN y ELSE x

\* is_sharp = laplacian_var > 80.0, in hundredths
SharpMin == 8000
\* has_noise = noise_std > 1.5, in thousandths
NoiseMin == 1500
\* no_banding = banding_score < 12.0, in thousandths
BandingMax == 12000

Message(msg, nums) == [msg |-> msg, args |-> nums]

\* check_liveness with the banding check made part of the verdict
check_liveness_banding(img, m) ==
    LET is_sharp   == NpBool(m.laplacian_var > SharpMin)
        has_noise  == PyBool(m.noise_std > NoiseMin)
        no_banding == PyBool(m.banding_score < BandingMax)
        live       == PyAnd(PyAnd(is_sharp, has_noise), no_banding)
        reason     ==
            IF ~is_sharp.v
            THEN Some(Message("Imagen poco nitida (Laplacian=%.1f, minimo 80)",
                              <<RoundHalfEven(m.laplacian_var, 10)>>))
            ELSE IF ~has_noise.v
            THEN Some(Message("Patron de pantalla detectado (noise_std=%.2f)",
                              <<RoundHalfEven(m.noise_std, 10)>>))
            ELSE None
    IN  [live          |-> live,
         laplacian_var |-> RoundHalfEven(m.laplacian_var, 10),
         noise_std     |-> RoundHalfEven(m.noise_std, 10),
         banding_score |-> RoundHalfEven(m.banding_score, 10),
         reason        |-> reason]

\* m: the metrics of lines 244-258, [laplacian_var, noise_std, banding_score];
\* laplacian_var is a numpy.float64 (ndarray.var()), noise_std and
\* banding_score are made floats.
check_liveness(img, m) ==
    IF img = None
    THEN [live |-> PyBool(FALSE), reason |-> Some(Message("Imagen vacia", <<>>))]
    ELSE
    LET is_sharp   == NpBool(m.laplacian_var > SharpMin)
        has_noise  == PyBool(m.noise_std > NoiseMin)
        no_banding == PyBool(m.banding_score < BandingMax)
        live       == PyAnd(is_sharp, has_noise)
        reason     ==
            IF ~is_sharp.v
            THEN Some(Message("Imagen poco nitida (Laplacian=%.1f, minimo 80)",
                              <<RoundHalfEven(m.laplacian_var, 10)>>))
            ELSE IF ~has_noise.v
            THEN Some(Message("Patron de pantalla detectado (noise_std=%.2f)",
                              <<RoundHalfEven(m.noise_std, 10)>>))
            ELSE None
    IN  [live          |-> live,
         laplacian_var |-> RoundHalfEven(m.laplacian_var, 10),
         noise_std     |-> RoundHalfEven(m.noise_std, 10),
         banding_score |-> RoundHalfEven(m.banding_score, 10),
         reason        |-> reason]

----------------------------------------------------------------------------
\* preprocess_image (lines 122-155) and fix_exif_rotation (lines 33-90)

\* Image.fromarray(cv2.cvtColor(img, COLOR_BGR2RGB)): a new in-memory image of
\* class PIL.Image.Image holding the pixels of the array.  The array carries no
\* metadata of the file it was decoded from.
fromarray(img) == [cls |-> "PIL.Image.Image", array |-> img]

\* pil_img._getexif(): a method of the image-file plugin classes
\* (JpegImageFile, ...).  PIL.Image.Image does not define it, so on an image
\* built by fromarray the attribute lookup raises AttributeError.
getexif(pil_img) ==
    IF pil_img.cls = "PIL.Image.Image"
    THEN [raised |-> Some("AttributeError"), value |-> None]
    ELSE [raised |-> None, value |-> pil_img.exif]

\* Pixel grids: a sequence of rows, each a sequence of pixels.
Height(g) == Len(g)
Width(g) == Len(g[1])
\* Image.rotate(angle, expand=True) turns counterclockwise.
Rot90(g) == [r \in 1..Width(g) |-> [c \in 1..Height(g) |-> g[c][Width(g) + 1 - r]]]
Rotate(g, angle) ==
    IF angle = 90 THEN Rot90(g)
    ELSE IF angle = 180 THEN Rot90(Rot90(g))
    ELSE IF angle = 270 THEN Rot90(Rot90(Rot90(g)))
    ELSE g
\* Image.transpose(FLIP_LEFT_RIGHT), Image.transpose(FLIP_TOP_BOTTOM)
FlipLeftRight(g) == [r \in 1..Height(g) |-> [c \in 1..Width(g) |-> g[r][Width(g) + 1 - c]]]
FlipTopBottom(g) == [r \in 1..Height(g) |-> g[Height(g) + 1 - r]]

\* rotations: orientation -> <<angle (0 for None), flip_h, flip_v>>
rotations ==
    [t \in 2..8 |->
        CASE t = 2 -> <<0,   TRUE,  FALSE>>
          [] t = 3 -> <<180, FALSE, FALSE>>
          [] t = 4 -> <<0,   FALSE, TRUE>>
          [] t = 5 -> <<90,  TRUE,  FALSE>>
          [] t = 6 -> <<270, FALSE, FALSE>>
          [] t = 7 -> <<270, TRUE,  FALSE>>
          [] t = 8 -> <<90,  FALSE, FALSE>>]

\* lines 74-84: rotate, then flip horizontally, then flip vertically
ApplyRotation(g, t) ==
    LET r  == rotations[t]
        g1 == IF r[1] # 0 THEN Rotate(g, r[1]) ELSE g
        g2 == IF r[2] THEN FlipLeftRight(g1) ELSE g1
    IN  IF r[3] THEN FlipTopBottom(g2) ELSE g2

\* The orientation tag (274) of an EXIF dictionary, None when it has none.
OrientationOf(exif) == IF "Orientation" \in DOMAIN exif THEN Some(exif.Orientation) ELSE None

fix_exif_rotation(img) ==
    LET pil_img == fromarray(img)
        got     == getexif(pil_img)
    IN  IF got.raised # None THEN img             \* except Exception: return img
        ELSE IF got.value = None THEN img
        ELSE LET exif == got.value[1]
                 o    == OrientationOf(exif)
             IN  IF o = None THEN img
                 ELSE IF o[1] \notin DOMAIN rotations THEN img
                 ELSE ApplyRotation(pil_img.array, o[1])

\* apply_clahe equalises the L channel: pixel values change, the shape does
\* not.  The images of main() are shapes.
apply_clahe(img) == img

\* if w > 1920
MaxWidth == 1920

\* Lines 147-152.  new_h = int(h * (1920 / w)), taken here as the exact floor.
\* cv2.resize rejects a destination size with a zero dimension (cv2.error).
ScaleStep(img) ==
    IF img.w > MaxWidth
    THEN LET new_w == MaxWidth
             new_h == (img.h * MaxWidth) \div img.w
         IN  IF new_h = 0
             THEN [raised |-> Some("cv2.error"), img |-> None]
             ELSE [raised |-> None, img |-> Some([w |-> new_w, h |-> new_h])]
    ELSE [raised |-> None, img |-> Some(img)]

\* file: [readable, w, h] - what cv2.imread finds at image_path.
\* Returns (img, err), or raises.
preprocess_image(file) ==
    IF ~file.readable
    THEN [raised |-> None, img |-> None,
          err |-> Some(Message("No se pudo leer la imagen: %s", <<>>))]
    ELSE LET img1 == fix_exif_rotation([w |-> file.w, h |-> file.h])
             img2 == apply_clahe(img1)
             s    == ScaleStep(img2)
         IN  [raised |-> s.raised, img |-> s.img, err |-> None]

----------------------------------------------------------------------------
\* get_face_embedding (lines 185-200)

RECURSIVE MaxByArea(_)
\* max(faces, key=area): the first face of the largest area
MaxByArea(faces) ==
    IF Len(faces) = 1 THEN faces[1]
    ELSE LET rest == MaxByArea(Tail(faces))
         IN  IF rest.area > faces[1].area THEN rest ELSE faces[1]

\* faces: what app.get(img) returns.  Returns (embedding, err).
get_face_embedding(img, faces) ==
    IF img = None
    THEN [emb |-> None, err |-> Some(Message("Imagen vacia", <<>>))]
    ELSE IF faces = <<>>
    THEN [emb |-> None, err |-> Some(Message("No se detecto ninguna cara en la imagen", <<>>))]
    ELSE [emb |-> Some(MaxByArea(faces).embedding), err |-> None]

----------------------------------------------------------------------------
\* The result documents of main() and json.dumps

\* {"match": False, "similarity": 0, "errors": [e]}
ErrorResult(e) == [match |-> FALSE, similarity |-> 0, errors |-> <<e>>]

\* f"{label}: {err}"
Prefixed(label, e) == Message(label \o ": " \o e.msg, e.args)

\* Lines 322-327: the result printed when the liveness check fails
LivenessFailure(report) ==
    ErrorResult(Prefixed("Liveness fallido", report.reason[1]))
        @@ [liveness |-> report]

\* args.min_sim, default 0.65
DefaultMinSim == 65000

\* The comparison with a strict threshold: match = similarity > min_sim
CompareResultStrict(s_emb, d_emb, min_sim, liveness) ==
    LET similarity == cosine_similarity(s_emb, d_emb)
        match      == similarity > min_sim
        errors     == IF ~match
                      THEN <<Message("Similitud insuficiente (%.2f < %s). Usa una foto clara de frente con buena iluminacion.",
                                     <<RoundHalfEven(similarity, 1000), min_sim>>)>>
                      ELSE <<>>
        result     == [match      |-> match,
                       similarity |-> RoundHalfEven(similarity, 10),
                       embedding  |-> quantize_embedding(s_emb, 1),
                       errors     |-> errors]
    IN  IF liveness # None THEN result @@ [liveness |-> liveness[1]] ELSE result

\* The comparison with the document embedding quantized into the result
CompareResultDocument(s_emb, d_emb, min_sim, liveness) ==
    LET similarity == cosine_similarity(s_emb, d_emb)
        match      == similarity >= min_sim
        errors     == IF ~match
                      THEN <<Message("Similitud insuficiente (%.2f < %s). Usa una foto clara de frente con buena iluminacion.",
                                     <<RoundHalfEven(similarity, 1000), min_sim>>)>>
                      ELSE <<>>
        result     == [match      |-> match,
                       similarity |-> RoundHalfEven(similarity, 10),
                       embedding  |-> quantize_embedding(d_emb, 1),
                       errors     |-> errors]
    IN  IF liveness # None THEN result @@ [liveness |-> liveness[1]] ELSE result

\* Lines 343-364: similarity, match, errors, quantized embedding, liveness
CompareResult(s_emb, d_emb, min_sim, liveness) ==
    LET similarity == cosine_similarity(s_emb, d_emb)
        match      == similarity >= min_sim
        errors     == IF ~match
                      THEN <<Message("Similitud insuficiente (%.2f < %s). Usa una foto clara de frente con buena iluminacion.",
                                     <<RoundHalfEven(similarity, 1000), min_sim>>)>>
                      ELSE <<>>
        quantized  == quantize_embedding(s_emb, 1)
        result     == [match      |-> match,
                       similarity |-> RoundHalfEven(similarity, 10),
                       embedding  |-> quantized,
                       errors     |-> errors]
    IN  IF liveness # None THEN result @@ [liveness |-> liveness[1]] ELSE result

\* json.dumps raises TypeError on a value of a class it does not know:
\* numpy.bool_ is not a subclass of bool.
Serializable(result) ==
    "liveness" \in DOMAIN result => result.liveness.live.type = "bool"

\* The JSON document: true/false for a bool.
JsonLiveness(report) == [report EXCEPT !.live = report.live.v]
JsonDocument(result) ==
    IF "liveness" \in DOMAIN result
    THEN [result EXCEPT !.liveness = JsonLiveness(result.liveness)]
    ELSE result

----------------------------------------------------------------------------
\* Inputs of a run of main()

\* --min-sim: 0.5, the default, 1.0
MinSims == {DefaultMinSim - 15000, DefaultMinSim, SimScale}

\* What cv2.imread finds at a path that exists: nothing it can decode, or an
\* image at the resize limit, a strip one pixel high just above it, one two
\* pixels high.
MainFiles ==
    {[readable |-> FALSE, w |-> 0, h |-> 0]} \cup
    {[readable |-> TRUE, w |-> MaxWidth, h |-> 1],
     [readable |-> TRUE, w |-> MaxWidth + 1, h |-> 1],
     [readable |-> TRUE, w |-> MaxWidth + 1, h |-> 2]}

\* The metrics of the selfie, on either side of each threshold
MainMetrics ==
    [laplacian_var : {SharpMin - 8, SharpMin + 8},
     noise_std     : {NoiseMin - 8, NoiseMin + 8},
     banding_score : {BandingMax - 8, BandingMax + 8}]

Embeddings ==
    {<<x, y>> : x \in {-MaxComp, 0, MaxComp - 2}, y \in {MaxComp - 2, MaxComp}}
        \cup {<<0, 0>>}

Faces == [area : 1..MaxArea, embedding : Embeddings]
FaceLists == UNION {[1..n -> Faces] : n \in 0..MaxFaces}

\* How FaceAnalysis(...) and app.prepare(...) end: normally, with an
\* ImportError (insightface or onnxruntime not installed), or with another
\* exception (model files missing and not downloadable, a runtime failure).
LoadOutcomes == {"ok", "ImportError", "Exception"}

----------------------------------------------------------------------------
\* main() (lines 284-366)

idle == [op |-> "idle"]

MainInit ==
    /\ pc = "check_selfie"
    /\ args \in [min_sim : MinSims, liveness : BOOLEAN]
    /\ selfie_img = None
    /\ doc_img = None
    /\ liveness_result = None
    /\ app = None
    /\ selfie_emb = None
    /\ doc_emb = None
    /\ stdout = <<>>
    /\ exit_code = None
    /\ uncaught = None
    /\ trace = <<>>
    /\ failure = "none"
    /\ probe = idle
    /\ probe_out = None

\* print(json.dumps(result)); sys.exit(code).  When json.dumps raises, nothing
\* is printed and the exception leaves main(): the interpreter exits with 1.
PrintAndExit(result, code) ==
    /\ pc' = "exited"
    /\ IF Serializable(result)
       THEN /\ stdout' = Append(stdout, JsonDocument(result))
            /\ exit_code' = Some(code)
            /\ uncaught' = None
       ELSE /\ stdout' = stdout
            /\ exit_code' = Some(1)
            /\ uncaught' = Some("TypeError")

\* An exception no handler catches
Raise(exc) ==
    /\ pc' = "exited"
    /\ stdout' = stdout
    /\ exit_code' = Some(1)
    /\ uncaught' = Some(exc)

Continue(next) ==
    /\ pc' = next
    /\ UNCHANGED <<stdout, exit_code, uncaught>>

\* Lines 295-301, one iteration of the loop over [args.selfie, args.document]
CheckFile(at, label, next) ==
    /\ pc = at
    /\ \E exists \in BOOLEAN :
        /\ trace' = Append(trace, "os.path.exists")
        /\ IF ~exists
           THEN /\ PrintAndExit(ErrorResult(Message("Archivo no encontrado: " \o label, <<>>)), 0)
                /\ failure' = "missing_file"
           ELSE /\ Continue(next)
                /\ failure' = failure
    /\ UNCHANGED <<args, selfie_img, doc_img, liveness_result, app, selfie_emb,
                   doc_emb, probe, probe_out>>

CheckSelfieFile == CheckFile("check_selfie", "selfie", "check_document")
CheckDocumentFile == CheckFile("check_document", "document", "preprocess_selfie")

\* Lines 306-309
PreprocessSelfie ==
    /\ pc = "preprocess_selfie"
    /\ \E file \in MainFiles :
        LET r == preprocess_image(file)
        IN  /\ trace' = Append(trace, "preprocess_image")
            /\ IF r.raised # None
               THEN /\ Raise(r.raised[1])
                    /\ failure' = "preprocess_raised"
                    /\ selfie_img' = selfie_img
               ELSE IF r.err # None
               THEN /\ PrintAndExit(ErrorResult(Prefixed("Selfie", r.err[1])), 0)
                    /\ failure' = "decode"
                    /\ selfie_img' = r.img
               ELSE /\ Continue("preprocess_document")
                    /\ failure' = failure
                    /\ selfie_img' = r.img
    /\ UNCHANGED <<args, doc_img, liveness_result, app, selfie_emb, doc_emb,
                   probe, probe_out>>

\* Lines 311-314
PreprocessDocument ==
    /\ pc = "preprocess_document"
    /\ \E file \in MainFiles :
        LET r == preprocess_image(file)
        IN  /\ trace' = Append(trace, "preprocess_image")
            /\ IF r.raised # None
               THEN /\ Raise(r.raised[1])
                    /\ failure' = "preprocess_raised"
                    /\ doc_img' = doc_img
               ELSE IF r.err # None
               THEN /\ PrintAndExit(ErrorResult(Prefixed("Documento", r.err[1])), 0)
                    /\ failure' = "decode"
                    /\ doc_img' = r.img
               ELSE /\ Continue("liveness")
                    /\ failure' = failure
                    /\ doc_img' = r.img
    /\ UNCHANGED <<args, selfie_img, liveness_result, app, selfie_emb, doc_emb,
                   probe, probe_out>>

\* Lines 317-328
LivenessCheck ==
    /\ pc = "liveness"
    /\ IF args.liveness
       THEN \E m \in MainMetrics :
            LET report == check_liveness(selfie_img, m)
            IN  /\ liveness_result' = Some(report)
                /\ trace' = Append(trace, "check_liveness")
                /\ IF ~report.live.v
                   THEN /\ PrintAndExit(LivenessFailure(report), 0)
                        /\ failure' = "liveness"
                   ELSE /\ Continue("load_models")
                        /\ failure' = failure
       ELSE /\ liveness_result' = None
            /\ trace' = trace
            /\ Continue("load_models")
            /\ failure' = failure
    /\ UNCHANGED <<args, selfie_img, doc_img, app, selfie_emb, doc_emb,
                   probe, probe_out>>

\* Line 331 and load_models (lines 160-180): only ImportError is handled
LoadModels ==
    /\ pc = "load_models"
    /\ \E outcome \in LoadOutcomes :
        /\ trace' = Append(trace, "load_models")
        /\ IF outcome = "ok"
           THEN /\ app' = Some("FaceAnalysis")
                /\ Continue("embedding_selfie")
                /\ failure' = failure
           ELSE IF outcome = "ImportError"
           THEN /\ app' = app
                /\ PrintAndExit(ErrorResult(Message("InsightFace no disponible: %s. Instala con: pip install insightface", <<>>)), 1)
                /\ failure' = "load"
           ELSE /\ app' = app
                /\ Raise(outcome)
                /\ failure' = "load"
    /\ UNCHANGED <<args, selfie_img, doc_img, liveness_result, selfie_emb,
                   doc_emb, probe, probe_out>>

\* Lines 333-336
SelfieEmbedding ==
    /\ pc = "embedding_selfie"
    /\ \E faces \in FaceLists :
        LET r == get_face_embedding(selfie_img, faces)
        IN  /\ trace' = Append(trace, "get_face_embedding")
            /\ selfie_emb' = r.emb
            /\ IF r.err # None
               THEN /\ PrintAndExit(ErrorResult(Prefixed("Selfie", r.err[1])), 0)
                    /\ failure' = "no_face"
               ELSE /\ Continue("embedding_document")
                    /\ failure' = failure
    /\ UNCHANGED <<args, selfie_img, doc_img, liveness_result, app, doc_emb,
                   probe, probe_out>>

\* Lines 338-341
DocumentEmbedding ==
    /\ pc = "embedding_document"
    /\ \E faces \in FaceLists :
        LET r == get_face_embedding(doc_img, faces)
        IN  /\ trace' = Append(trace, "get_face_embedding")
            /\ doc_emb' = r.emb
            /\ IF r.err # None
               THEN /\ PrintAndExit(ErrorResult(Prefixed("Documento", r.err[1])), 0)
                    /\ failure' = "no_face"
               ELSE /\ Continue("compare")
                    /\ failure' = failure
    /\ UNCHANGED <<args, selfie_img, doc_img, liveness_result, app, selfie_emb,
                   probe, probe_out>>

\* Lines 344-366; main() returns and the interpreter exits with 0
Compare ==
    /\ pc = "compare"
    /\ trace' = trace \o <<"cosine_similarity", "quantize_embedding">>
    /\ PrintAndExit(CompareResult(selfie_emb[1], doc_emb[1], args.min_sim, liveness_result), 0)
    /\ failure' = failure
    /\ UNCHANGED <<args, selfie_img, doc_img, liveness_result, app, selfie_emb,
                   doc_emb, probe, probe_out>>

Next ==
    \/ CheckSelfieFile
    \/ CheckDocumentFile
    \/ PreprocessSelfie
    \/ PreprocessDocument
    \/ LivenessCheck
    \/ LoadModels
    \/ SelfieEmbedding
    \/ DocumentEmbedding
    \/ Compare

Spec == MainInit /\ [][Next]_vars

----------------------------------------------------------------------------
\* The functions on their own: an input is drawn, the function is applied.

\* No run of main() in progress
MainIdle ==
    /\ pc = "idle"
    /\ args = [min_sim |-> DefaultMinSim, liveness |-> FALSE]
    /\ selfie_img = None
    /\ doc_img = None
    /\ liveness_result = None
    /\ app = None
    /\ selfie_emb = None
    /\ doc_emb = None
    /\ stdout = <<>>
    /\ exit_code = None
    /\ uncaught = None
    /\ trace = <<>>
    /\ failure = "none"

Apply(op, result) ==
    /\ probe.op = op
    /\ probe_out = None
    /\ probe_out' = Some(result)
    /\ UNCHANGED <<probe, mainVars>>

\* check_liveness on the metrics of a decoded image
MetricTriples ==
    [laplacian_var : {SharpMin + 3 * k : k \in -MetricDelta..MetricDelta},
     noise_std     : {NoiseMin + 3 * k : k \in -MetricDelta..MetricDelta},
     banding_score : {BandingMax + 3 * k : k \in -MetricDelta..MetricDelta}]

LivenessInit ==
    /\ MainIdle
    /\ probe \in {[op |-> "check_liveness", m |-> m] : m \in MetricTriples}
    /\ probe_out = None

ApplyLiveness ==
    Apply("check_liveness", check_liveness(Some([w |-> MaxWidth, h |-> 1]), probe.m))

SpecLiveness == LivenessInit /\ [][ApplyLiveness]_vars

\* quantize_embedding at precision 1 on two embeddings less than 0.05 apart
\* in every position
\* Differences of less than 0.05: at most 4 hundredths either way
QNoise(n) == [1..n -> -4..4]

QuantizeInit ==
    /\ MainIdle
    /\ \E n \in 1..QMaxLen :
        \E a \in [1..n -> -QMaxComp..QMaxComp], d \in QNoise(n) :
            probe = [op |-> "quantize_embedding", a |-> a,
                     b |-> [i \in 1..n |-> a[i] + d[i]]]
    /\ probe_out = None

ApplyQuantize ==
    Apply("quantize_embedding",
          [a |-> quantize_embedding(probe.a, 1), b |-> quantize_embedding(probe.b, 1)])

SpecQuantize == QuantizeInit /\ [][ApplyQuantize]_vars

\* The scaling step of preprocess_image on a decoded image of w x h pixels
Widths ==
    (1..WDelta) \cup ((MaxWidth - WDelta)..(MaxWidth + WDelta))
        \cup {k * MaxWidth : k \in 1..WMult}

ScaleInit ==
    /\ MainIdle
    /\ probe \in {[op |-> "preprocess_image",
                   file |-> [readable |-> TRUE, w |-> w, h |-> h]] :
                        w \in Widths, h \in 1..MaxH}
    /\ probe_out = None

ApplyPreprocess == Apply("preprocess_image", preprocess_image(probe.file))

SpecScale == ScaleInit /\ [][ApplyPreprocess]_vars

\* fix_exif_rotation on the buffer decoded from a file whose EXIF orientation
\* tag is probe.tag (None: the file has no such tag)
Grids == UNION {[1..h -> [1..w -> 0..MaxPix]] : h \in 1..MaxSide, w \in 1..MaxSide}
OrientationTags == {None} \cup {Some(t) : t \in 1..9}

ExifInit ==
    /\ MainIdle
    /\ probe \in {[op |-> "fix_exif_rotation", img |-> g, tag |-> t] :
                        g \in Grids, t \in OrientationTags}
    /\ probe_out = None

ApplyExif == Apply("fix_exif_rotation", fix_exif_rotation(probe.img))

\* The corrected buffer of one file corrected again as a file of the same tag
ApplyExifAgain ==
    /\ probe.op = "fix_exif_rotation"
    /\ Len(probe_out) = 1
    /\ probe_out' = Append(probe_out, fix_exif_rotation(probe_out[1]))
    /\ UNCHANGED <<probe, mainVars>>

ExifNext == ApplyExif \/ ApplyExifAgain

SpecExif == ExifInit /\ [][ExifNext]_vars

\* Two runs of main() that reach the comparison with the same selfie
\* embedding and different document embeddings
PairInit ==
    /\ MainIdle
    /\ probe \in {[op |-> "compare", selfie |-> s, doc |-> d, min_sim |-> t,
                   liveness |-> l] :
                        s \in Embeddings,
                        d \in {x \in [1..2 -> Embeddings] : x[1] # x[2]},
                        t \in MinSims,
                        l \in {None} \cup {Some(check_liveness(Some([w |-> MaxWidth, h |-> 1]), m)) :
                                               m \in {x \in MainMetrics : x.laplacian_var > SharpMin /\ x.noise_std > NoiseMin}}}
    /\ probe_out = [r \in 1..2 |-> None]

RunCompare(r) ==
    /\ probe.op = "compare"
    /\ probe_out[r] = None
    /\ LET result == CompareResult(probe.selfie, probe.doc[r], probe.min_sim, probe.liveness)
       IN  probe_out' = [probe_out EXCEPT ![r] = Some(JsonDocument(result))]
    /\ UNCHANGED <<probe, mainVars>>

RunFirst == RunCompare(1)
RunSecond == RunCompare(2)

PairNext == RunFirst \/ RunSecond

SpecPair == PairInit /\ [][PairNext]_vars

----------------------------------------------------------------------------
\* Properties of a run of main()

Results == {stdout[i] : i \in 1..Len(stdout)}
Called(f) == \E i \in 1..Len(trace) : trace[i] = f
BothEmbeddings == selfie_emb # None /\ doc_emb # None

\* C1: every run of main() writes exactly one result document to stdout
\* before the process ends, whatever the outcome of each stage: never none,
\* never more than one, and nothing runs once the result is out.
C1_ExactlyOneResult ==
    /\ Len(stdout) <= 1
    /\ pc = "exited" => Len(stdout) = 1
    /\ stdout # <<>> => pc = "exited"

ListedFailures == {"missing_file", "decode", "liveness", "load", "no_face"}

\* C2: when a stage before the comparison fails (missing path, undecodable
\* image, liveness check rejecting the selfie, extractor not loadable, no face
\* found), the emitted result has match = false, similarity = 0, exactly one
\* error and no embedding; a non-zero similarity is only emitted after both
\* embeddings were extracted.
C2_EarlyFailureResult ==
    /\ (pc = "exited" /\ failure \in ListedFailures) =>
            /\ Len(stdout) = 1
            /\ stdout[1].match = FALSE
            /\ stdout[1].similarity = 0
            /\ Len(stdout[1].errors) = 1
            /\ "embedding" \notin DOMAIN stdout[1]
    /\ \A r \in Results : r.similarity # 0 => BothEmbeddings

\* C3: the exit code is 0 for a run that ends in a match, a non-match, a
\* missing file, a decode error, a liveness failure or a no-face error; it is
\* non-zero exactly when the embedding extractor could not be initialised,
\* whatever the reason, and a result with match = false is emitted even then.
C3_ExitCode ==
    pc = "exited" =>
        /\ (exit_code # Some(0)) <=> (failure = "load")
        /\ failure = "load" => (Len(stdout) = 1 /\ stdout[1].match = FALSE)

\* C4: with --liveness, check_liveness runs on the selfie after both images
\* are preprocessed and before load_models and get_face_embedding; when it
\* returns live = false the run ends at once with a result that carries the
\* whole report, similarity 0 and match = false, and neither load_models nor
\* get_face_embedding is called.  Without --liveness check_liveness is never
\* called and no result has a liveness field.
C4_LivenessGate ==
    /\ \A i \in 1..Len(trace) : trace[i] = "check_liveness" =>
            /\ args.liveness
            /\ Cardinality({j \in 1..(i - 1) : trace[j] = "preprocess_image"}) = 2
            /\ \A j \in 1..(i - 1) : trace[j] \notin {"load_models", "get_face_embedding"}
    /\ (liveness_result # None /\ ~liveness_result[1].live.v) =>
            /\ pc = "exited"
            /\ Len(stdout) = 1
            /\ "liveness" \in DOMAIN stdout[1]
            /\ stdout[1].liveness = JsonLiveness(liveness_result[1])
            /\ stdout[1].similarity = 0
            /\ stdout[1].match = FALSE
            /\ ~Called("load_models")
            /\ ~Called("get_face_embedding")
    /\ ~args.liveness =>
            /\ ~Called("check_liveness")
            /\ \A r \in Results : "liveness" \notin DOMAIN r

\* C5: in a result emitted after both embeddings were extracted, match holds
\* exactly when the cosine similarity is at least --min-sim, a non-match
\* carries exactly one error citing the similarity and the threshold and a
\* match carries none; so in every emitted result errors is empty exactly
\* when match is true.
C5_MatchIffThreshold ==
    \A r \in Results :
        /\ BothEmbeddings =>
            LET similarity == cosine_similarity(selfie_emb[1], doc_emb[1])
            IN  /\ r.match <=> (similarity >= args.min_sim)
                /\ r.match => r.errors = <<>>
                /\ ~r.match =>
                     /\ Len(r.errors) = 1
                     /\ r.errors[1].args = <<RoundHalfEven(similarity, 1000), args.min_sim>>
        /\ (r.errors = <<>>) <=> r.match

\* A non-match between two embeddings of non-zero similarity has been emitted.
C5_Witness ==
    /\ pc = "exited"
    /\ BothEmbeddings
    /\ Len(stdout) = 1
    /\ ~stdout[1].match
    /\ stdout[1].similarity > 0

----------------------------------------------------------------------------
\* Properties of the functions

Applied(op) == probe.op = op /\ probe_out # None

\* C6: the embedding field of the result is derived from the selfie embedding
\* alone: two runs with the same selfie embedding and different document
\* embeddings emit the same embedding field, the selfie embedding with every
\* component rounded to the nearest multiple of 0.1.
C6_EmbeddingFromSelfieOnly ==
    (probe.op = "compare" /\ probe_out[1] # None /\ probe_out[2] # None) =>
        LET e1 == probe_out[1][1].embedding
            e2 == probe_out[2][1].embedding
        IN  /\ e1 = e2
            /\ Len(e1) = Len(probe.selfie)
            /\ \A i \in 1..Len(e1) :
                /\ e1[i] % 10 = 0
                /\ Abs(e1[i] - probe.selfie[i]) <= 5

\* Both runs are made, one ends in a match and the other does not.
C6_Witness ==
    /\ probe.op = "compare"
    /\ probe_out[1] # None
    /\ probe_out[2] # None
    /\ probe_out[1][1].match # probe_out[2][1].match

C9_ScaledWithinLimit ==
    Applied("preprocess_image") =>
        LET w == probe.file.w
            h == probe.file.h
            r == probe_out[1]
        IN  /\ r.raised = None
            /\ r.err = None
            /\ r.img # None
            /\ r.img[1].w <= 1920
            /\ r.img[1].w <= w
            /\ r.img[1].h >= 1
            /\ w <= 1920 => r.img[1] = [w |-> w, h |-> h]
            /\ w > 1920 =>
                /\ r.img[1].w = 1920
                /\ Abs(r.img[1].h * w - h * 1920) < w

\* C10: fix_exif_rotation returns the buffer of a file with orientation tag
\* 2..8 transformed by the table entry of the tag (rotate, then flip
\* horizontally, then flip vertically) and the buffer itself for tag 1, no
\* tag or an unknown tag; correcting twice with tag 3 gives the original.
C10_OrientationTable ==
    Applied("fix_exif_rotation") =>
        LET expected(g) == IF probe.tag # None /\ probe.tag[1] \in 2..8
                           THEN ApplyRotation(g, probe.tag[1])
                           ELSE g
        IN  /\ probe_out[1] = expected(probe.img)
            /\ Len(probe_out) = 2 =>
                /\ probe_out[2] = expected(probe_out[1])
                /\ probe.tag = Some(3) => probe_out[2] = probe.img

====
